---- MODULE Spec2Model ----
(***************************************************************************)
(* A model of the units engine of galatea (src/units): unit variant        *)
(* tables, Measures, their arithmetic and the operator registries.         *)
(*                                                                         *)
(* Python's float is IEEE-754 binary64.  A float is modelled exactly: a    *)
(* sign, a 53-bit mantissa held as base-2^14 limbs (least significant      *)
(* first) and a binary exponent, every operation rounding to nearest,      *)
(* ties to even, as the hardware does.  Python ints that the program       *)
(* handles here are small and are floats with an exact value.              *)
(***************************************************************************)
EXTENDS Integers, Sequences, FiniteSets, TLC

(***************************************************************************)
(* Natural numbers of any size: sequences of limbs, least significant      *)
(* first, without leading (high) zero limbs; <<>> is zero.                 *)
(***************************************************************************)
LimbBits == 14

LimbBase == 2^LimbBits

MantBits == 53

Limb(x, i) == IF i <= Len(x) THEN x[i] ELSE 0

MaxOf(a, b) == IF a >= b THEN a ELSE b

RECURSIVE BStrip(_)
BStrip(x) ==
    IF x = <<>> THEN <<>>
    ELSE IF x[Len(x)] = 0 THEN BStrip(SubSeq(x, 1, Len(x) - 1))
    ELSE x

RECURSIVE BFromInt(_)
BFromInt(n) ==
    IF n = 0 THEN <<>> ELSE <<n % LimbBase>> \o BFromInt(n \div LimbBase)

RECURSIVE BAddFrom(_, _, _, _)
BAddFrom(x, y, i, c) ==
    IF i > MaxOf(Len(x), Len(y))
    THEN (IF c = 0 THEN <<>> ELSE <<c>>)
    ELSE LET s == Limb(x, i) + Limb(y, i) + c
         IN  <<s % LimbBase>> \o BAddFrom(x, y, i + 1, s \div LimbBase)

BAdd(x, y) == BAddFrom(x, y, 1, 0)

RECURSIVE BSubFrom(_, _, _, _)
BSubFrom(x, y, i, b) ==
    IF i > Len(x) THEN <<>>
    ELSE LET d == x[i] - Limb(y, i) - b
         IN  IF d < 0
             THEN <<d + LimbBase>> \o BSubFrom(x, y, i + 1, 1)
             ELSE <<d>> \o BSubFrom(x, y, i + 1, 0)

\* x - y for x >= y
BSub(x, y) == BStrip(BSubFrom(x, y, 1, 0))

RECURSIVE BCmpFrom(_, _, _)
BCmpFrom(x, y, i) ==
    IF i = 0 THEN 0
    ELSE IF x[i] > y[i] THEN 1
    ELSE IF x[i] < y[i] THEN -1
    ELSE BCmpFrom(x, y, i - 1)

\* -1, 0, 1 as x <, =, > y
BCmp(x, y) ==
    IF Len(x) > Len(y) THEN 1
    ELSE IF Len(x) < Len(y) THEN -1
    ELSE BCmpFrom(x, y, Len(x))

RECURSIVE BColumn(_, _, _, _)
BColumn(x, y, k, i) ==
    IF i > Len(x) \/ i > k THEN 0
    ELSE x[i] * Limb(y, k - i + 1) + BColumn(x, y, k, i + 1)

RECURSIVE BMulFrom(_, _, _, _)
BMulFrom(x, y, k, c) ==
    IF k > Len(x) + Len(y) THEN <<>>
    ELSE LET s == BColumn(x, y, k, 1) + c
         IN  <<s % LimbBase>> \o BMulFrom(x, y, k + 1, s \div LimbBase)

BMul(x, y) == BStrip(BMulFrom(x, y, 1, 0))

RECURSIVE BZeros(_)
BZeros(n) == IF n = 0 THEN <<>> ELSE <<0>> \o BZeros(n - 1)

RECURSIVE BScaleFrom(_, _, _, _)
BScaleFrom(x, f, i, c) ==
    IF i > Len(x) THEN (IF c = 0 THEN <<>> ELSE <<c>>)
    ELSE LET s == x[i] * f + c
         IN  <<s % LimbBase>> \o BScaleFrom(x, f, i + 1, s \div LimbBase)

\* x * 2^n
BShl(x, n) ==
    IF x = <<>> THEN <<>>
    ELSE BZeros(n \div LimbBits) \o BScaleFrom(x, 2^(n % LimbBits), 1, 0)

RECURSIVE BShrFrom(_, _, _)
BShrFrom(x, r, i) ==
    IF i > Len(x) THEN <<>>
    ELSE <<(x[i] \div 2^r) + (Limb(x, i + 1) % 2^r) * 2^(LimbBits - r)>>
         \o BShrFrom(x, r, i + 1)

\* x \div 2^n
BShr(x, n) ==
    LET q == n \div LimbBits
    IN  IF q >= Len(x) THEN <<>>
        ELSE BStrip(BShrFrom(SubSeq(x, q + 1, Len(x)), n % LimbBits, 1))

RECURSIVE IntBitLen(_)
IntBitLen(n) == IF n = 0 THEN 0 ELSE 1 + IntBitLen(n \div 2)

BBitLen(x) ==
    IF x = <<>> THEN 0 ELSE (Len(x) - 1) * LimbBits + IntBitLen(x[Len(x)])

BIsOdd(x) == x # <<>> /\ x[1] % 2 = 1

\* x % 2^n
BLow(x, n) == BSub(x, BShl(BShr(x, n), n))

(***************************************************************************)
(* Long division, one quotient bit at a time and one quotient limb per     *)
(* round: the quotient and remainder of rem * 2^(LimbBits * limbs) by d,   *)
(* for rem < d.                                                            *)
(***************************************************************************)
RECURSIVE BDivBits(_, _, _, _)
BDivBits(rem, d, k, q) ==
    IF k = 0 THEN [quot |-> q, rem |-> rem]
    ELSE LET r2 == BAdd(rem, rem)
         IN  IF BCmp(r2, d) >= 0
             THEN BDivBits(BSub(r2, d), d, k - 1, 2 * q + 1)
             ELSE BDivBits(r2, d, k - 1, 2 * q)

\* The quotient's limbs come most significant first and are kept in acc.
RECURSIVE BDivLimbs(_, _, _, _)
BDivLimbs(rem, d, limbs, acc) ==
    IF limbs = 0 THEN [quot |-> BStrip(acc), rem |-> rem]
    ELSE LET step == BDivBits(rem, d, LimbBits, 0)
         IN  BDivLimbs(step.rem, d, limbs - 1, <<step.quot>> \o acc)

\* floor(n * 2^(LimbBits * limbs) / d) and its remainder, for n < 2 * d
BDivShifted(n, d, limbs) ==
    IF BCmp(n, d) >= 0
    THEN BDivLimbs(BSub(n, d), d, limbs, <<1>>)
    ELSE BDivLimbs(n, d, limbs, <<>>)

(***************************************************************************)
(* Floats.  A nonzero float is [sign, mant, exp] with                      *)
(* 2^52 <= mant < 2^53 and value (-1)^sign * mant * 2^exp; zero is FZero   *)
(* (Python's -0.0 equals 0.0 in every comparison and is not told apart).   *)
(***************************************************************************)
Float(sign, mant, exp) == [sign |-> sign, mant |-> mant, exp |-> exp]

FZero == Float(0, <<>>, 0)

\* The float nearest to (-1)^sign * (n + frac) * 2^e, where 0 <= frac < 1 and
\* sticky says frac > 0; ties go to the even mantissa.  With sticky set, n has
\* more than MantBits bits.
FRound(sign, n, e, sticky) ==
    LET len == BBitLen(n)
    IN  IF n = <<>> THEN FZero
        ELSE IF len <= MantBits
        THEN [sign |-> sign, mant |-> BShl(n, MantBits - len),
              exp |-> e - (MantBits - len)]
        ELSE LET s    == len - MantBits
                 q    == BShr(n, s)
                 low  == BLow(n, s)
                 half == BShl(<<1>>, s - 1)
                 c    == BCmp(low, half)
                 up   == c > 0 \/ (c = 0 /\ (sticky \/ BIsOdd(q)))
                 q1   == IF up THEN BAdd(q, <<1>>) ELSE q
             IN  IF BBitLen(q1) > MantBits
                 THEN [sign |-> sign, mant |-> BShr(q1, 1), exp |-> e + s + 1]
                 ELSE [sign |-> sign, mant |-> q1, exp |-> e + s]

\* A Python int (|n| < 2^31) as a float
FInt(n) == IF n < 0 THEN FRound(1, BFromInt(-n), 0, FALSE)
           ELSE FRound(0, BFromInt(n), 0, FALSE)

FIsZero(x) == x.mant = <<>>

FNeg(x) == IF FIsZero(x) THEN x ELSE [x EXCEPT !.sign = 1 - x.sign]

\* x * y
FMul(x, y) ==
    IF FIsZero(x) \/ FIsZero(y) THEN FZero
    ELSE FRound((x.sign + y.sign) % 2, BMul(x.mant, y.mant), x.exp + y.exp, FALSE)

\* x / y for y nonzero
FDiv(x, y) ==
    IF FIsZero(x) THEN FZero
    ELSE LET limbs == (MantBits + 2) \div LimbBits + 1
             d     == BDivShifted(x.mant, y.mant, limbs)
         IN  FRound((x.sign + y.sign) % 2, d.quot,
                    x.exp - y.exp - LimbBits * limbs, d.rem # <<>>)

\* -1, 0, 1 as |x| <, =, > |y|, for nonzero x, y
FCmpAbs(x, y) ==
    IF x.exp > y.exp THEN 1
    ELSE IF x.exp < y.exp THEN -1
    ELSE BCmp(x.mant, y.mant)

\* -1, 0, 1 as x <, =, > y
FCmp(x, y) ==
    IF FIsZero(x) /\ FIsZero(y) THEN 0
    ELSE IF FIsZero(x) THEN (IF y.sign = 0 THEN -1 ELSE 1)
    ELSE IF FIsZero(y) THEN (IF x.sign = 0 THEN 1 ELSE -1)
    ELSE IF x.sign # y.sign THEN (IF x.sign = 0 THEN 1 ELSE -1)
    ELSE IF x.sign = 0 THEN FCmpAbs(x, y)
    ELSE -FCmpAbs(x, y)

\* The exponents of two operands of a sum differ by at most this much before
\* the smaller one only decides a tie.
FAlignMax == MantBits + 3

\* |x| + |y| or |x| - |y| with the sign given, for nonzero x, y, |x| >= |y|
FAddAbs(sign, x, y, subtract) ==
    LET d == x.exp - y.exp
    IN  IF d <= FAlignMax
        THEN LET big == BShl(x.mant, d)
             IN  FRound(sign,
                        IF subtract THEN BSub(big, y.mant) ELSE BAdd(big, y.mant),
                        y.exp, FALSE)
        ELSE LET big == BShl(x.mant, 2)
             IN  FRound(sign,
                        IF subtract THEN BSub(big, <<1>>) ELSE big,
                        x.exp - 2, TRUE)

\* x + y
FAdd(x, y) ==
    IF FIsZero(x) THEN y
    ELSE IF FIsZero(y) THEN x
    ELSE LET c == FCmpAbs(x, y)
             hi == IF c >= 0 THEN x ELSE y
             lo == IF c >= 0 THEN y ELSE x
         IN  IF x.sign = y.sign THEN FAddAbs(x.sign, hi, lo, FALSE)
             ELSE IF c = 0 THEN FZero
             ELSE FAddAbs(hi.sign, hi, lo, TRUE)

\* x - y
FSub(x, y) == FAdd(x, FNeg(y))

\* The float a decimal literal p/q denotes (p, q ints): the nearest float
FLit(p, q) == FDiv(FInt(p), FInt(q))

FAbs(x) == [x EXCEPT !.sign = 0]

\* x * 2^k
FScale2(x, k) == IF FIsZero(x) THEN x ELSE [x EXCEPT !.exp = @ + k]

\* |x - y| <= 2^-k * |y|
FClose(x, y, k) ==
    FCmp(FAbs(FSub(x, y)), FScale2(FAbs(y), 0 - k)) <= 0

(***************************************************************************)
(* The floats of the program's literals: the float nearest to the decimal  *)
(* written in the source (FLit of it), as FloatLiterals states.            *)
(***************************************************************************)
\* 1
F1 == Float(0, <<0, 0, 0, 1024>>, -52)

\* 1e3, 1000
F1000 == Float(0, <<0, 0, 0, 2000>>, -43)

\* 1e6
F1e6 == Float(0, <<0, 0, 2048, 1953>>, -33)

\* 98066.5
F98066_5 == Float(0, <<0, 0, 4736, 1532>>, -36)

\* 9.80665
F9_80665 == Float(0, <<8965, 10826, 4115, 1255>>, -49)

\* 9806650
F9806650 == Float(0, <<0, 0, 1652, 1197>>, -29)

\* 9806.650
F9806_65 == Float(0, <<13107, 3276, 13619, 1225>>, -39)

\* 0.01
F0_01 == Float(0, <<5243, 7864, 11796, 1310>>, -59)

\* 0.001
F0_001 == Float(0, <<10748, 3014, 9437, 1048>>, -62)

\* 3
F3 == Float(0, <<0, 0, 0, 1536>>, -51)

\* 7
F7 == Float(0, <<0, 0, 0, 1792>>, -50)

\* 2
F2 == Float(0, <<0, 0, 0, 1024>>, -51)

\* 50
F50 == Float(0, <<0, 0, 0, 1600>>, -47)

\* 20
F20 == Float(0, <<0, 0, 0, 1280>>, -48)

\* 100
F100 == Float(0, <<0, 0, 0, 1600>>, -46)

F200 == Float(0, <<0, 0, 0, 1600>>, -45)

FloatLiterals ==
    /\ F1 = FInt(1)
    /\ F1000 = FLit(1000, 1)
    /\ F1e6 = FLit(1000000, 1)
    /\ F98066_5 = FLit(980665, 10)
    /\ F9_80665 = FLit(980665, 100000)
    /\ F9806650 = FInt(9806650)
    /\ F9806_65 = FLit(9806650, 1000)
    /\ F0_01 = FLit(1, 100)
    /\ F0_001 = FLit(1, 1000)
    /\ F3 = FInt(3)
    /\ F7 = FInt(7)
    /\ F2 = FInt(2)
    /\ F50 = FInt(50)
    /\ F20 = FInt(20)
    /\ F100 = FInt(100)
    /\ F200 = FInt(200)
    /\ FZero = FInt(0)

(***************************************************************************)
(* units/dimensions.py and units/measures.py: the quantity types, their    *)
(* Dimension Tags and their unit enums.  A unit enum is the sequence of    *)
(* its members in definition order, each with its name, display string     *)
(* and factor.  The superscripts of the display strings are written ^2     *)
(* and ^3.                                                                 *)
(***************************************************************************)
MeasureClasses == {"Strain", "Stress", "SpecificWeight", "EnergyDensity", "Length"}

dimension(cls) ==
    CASE cls = "Strain"         -> "STRAIN"
      [] cls = "Stress"         -> "STRESS"
      [] cls = "SpecificWeight" -> "SPECIFIC_WEIGHT"
      [] cls = "EnergyDensity"  -> "ENERGY_DENSITY"
      [] cls = "Length"         -> "LENGTH"

Dimension == {dimension(cls) : cls \in MeasureClasses}

UnitMember(name, display, factor) ==
    [name |-> name, display |-> display, factor |-> factor]

Dimensionless == <<UnitMember("NONE", "", F1)>>

\* StressUnit with the factor of Pa given to kPa
StressUnitTwoBases ==
    << UnitMember("Pa", "Pa", F1),
       UnitMember("kPa", "kPa", F1),
       UnitMember("MPa", "MPa", F1e6),
       UnitMember("kg_cm2", "kg/cm^2", F98066_5) >>

StressUnit ==
    << UnitMember("Pa", "Pa", F1),
       UnitMember("kPa", "kPa", F1000),
       UnitMember("MPa", "MPa", F1e6),
       UnitMember("kg_cm2", "kg/cm^2", F98066_5) >>

SpecificWeightUnit ==
    << UnitMember("N_m3", "N/m^3", F1),
       UnitMember("kN_m3", "kN/m^3", F1000),
       UnitMember("kg_m3", "kg/m^3", F9_80665),
       UnitMember("kg_cm3", "kg/cm^3", F9806650),
       UnitMember("g_cm3", "g/cm^3", F9806_65) >>

\* EnergyDensityUnit with the display string Pa given to both members
EnergyDensityUnitSameDisplay ==
    << UnitMember("J_m3", "Pa", F1),
       UnitMember("Pa", "Pa", F1) >>

EnergyDensityUnit ==
    << UnitMember("J_m3", "J/m^3", F1),
       UnitMember("Pa", "Pa", F1) >>

LengthUnit ==
    << UnitMember("m", "m", F1),
       UnitMember("cm", "cm", F0_01),
       UnitMember("mm", "mm", F0_001) >>

\* The class attribute _unit_enum of a Measure class: the enum's name
unit_enum_name(cls) ==
    CASE cls = "Strain"         -> "Dimensionless"
      [] cls = "Stress"         -> "StressUnit"
      [] cls = "SpecificWeight" -> "SpecificWeightUnit"
      [] cls = "EnergyDensity"  -> "EnergyDensityUnit"
      [] cls = "Length"         -> "LengthUnit"

\* and its members
unit_enum(cls) ==
    CASE cls = "Strain"         -> Dimensionless
      [] cls = "Stress"         -> StressUnit
      [] cls = "SpecificWeight" -> SpecificWeightUnit
      [] cls = "EnergyDensity"  -> EnergyDensityUnit
      [] cls = "Length"         -> LengthUnit

\* enum_cls.__members__: the member names
Members(enum) == {enum[i].name : i \in 1..Len(enum)}

\* enum_cls[name]
MemberNamed(enum, name) ==
    enum[CHOOSE i \in 1..Len(enum) : enum[i].name = name]

\* [unit for unit in enum_cls if unit.display == token]
DisplayMatches(enum, token) ==
    SelectSeq(enum, LAMBDA u : u.display = token)

(***************************************************************************)
(* What evaluating a Python expression gives: a value, or an exception     *)
(* with its class, the fixed text of its message and the values the        *)
(* message prints.  NotImplemented is the value a binary method returns    *)
(* to decline its operand.                                                 *)
(***************************************************************************)
Returns(v) == [ok |-> TRUE, val |-> v]

Raises(exc, msg, args) == [ok |-> FALSE, exc |-> exc, msg |-> msg, args |-> args]

NotImplemented == [ok |-> TRUE, val |-> [cls |-> "NotImplementedType"]]

\* A bool
Bool(b) == [cls |-> "bool", value |-> b]

\* A plain number operand (isinstance(other, (int, float)))
Number(x) == [cls |-> "float", value |-> x]

IsNumber(v) == v.cls = "float"

IsMeasure(v) == v.cls \in MeasureClasses

\* A str operand
Str(s) == [cls |-> "str", value |-> s]

\* None
None == [cls |-> "NoneType"]

\* A binary operator whose method declined: the interpreter's TypeError
UnsupportedOperand(sym, a, b) ==
    Raises("TypeError", "unsupported operand type(s) for " \o sym, <<a.cls, b.cls>>)

(***************************************************************************)
(* units/base_models.py, BaseMeasure                                       *)
(***************************************************************************)
\* __post_init__ falling back on the first unit of the table
Measure__init__DefaultUnit(cls, value, unit) ==
    LET child_unit_class == unit_enum(cls)
        matches == DisplayMatches(child_unit_class, unit)
        byName  == unit \in Members(child_unit_class)
        parsed  == IF byName THEN MemberNamed(child_unit_class, unit)
                   ELSE IF matches # <<>> THEN matches[1]
                   ELSE child_unit_class[1]
    IN  Returns([cls |-> cls, value |-> value, unit |-> unit,
                 user_unit |-> parsed.name, factor |-> parsed.factor,
                 display_unit |-> parsed.display])

\* __post_init__: the Measure cls(value, unit), or the ValueError
Measure__init__(cls, value, unit) ==
    LET child_unit_class == unit_enum(cls)
        matches == DisplayMatches(child_unit_class, unit)
        byName  == unit \in Members(child_unit_class)
        parsed  == IF byName THEN MemberNamed(child_unit_class, unit)
                   ELSE matches[1]
    IN  IF ~byName /\ matches = <<>>
        THEN Raises("ValueError", "Unknown unit: {unit} in {enum}",
                    <<unit, unit_enum_name(cls)>>)
        ELSE Returns([cls |-> cls, value |-> value, unit |-> unit,
                      user_unit |-> parsed.name, factor |-> parsed.factor,
                      display_unit |-> parsed.display])

to_base_units(m) == FMul(m.value, m.factor)

\* convert(dest_unit) relabelling the value
convertKeepValue(m, dest_unit) ==
    LET enum_cls == unit_enum(m.cls)
        matches  == DisplayMatches(enum_cls, dest_unit)
        byName   == dest_unit \in Members(enum_cls)
        target_enum == IF byName THEN MemberNamed(enum_cls, dest_unit)
                       ELSE matches[1]
    IN  IF ~byName /\ matches = <<>>
        THEN Raises("ValueError", "Unit '{unit}' is not valid for {class}",
                    <<dest_unit, m.cls>>)
        ELSE Measure__init__(m.cls, m.value, target_enum.display)

\* convert(dest_unit) for a string dest_unit
convert(m, dest_unit) ==
    LET enum_cls == unit_enum(m.cls)
        matches  == DisplayMatches(enum_cls, dest_unit)
        byName   == dest_unit \in Members(enum_cls)
        target_enum == IF byName THEN MemberNamed(enum_cls, dest_unit)
                       ELSE matches[1]
    IN  IF ~byName /\ matches = <<>>
        THEN Raises("ValueError", "Unit '{unit}' is not valid for {class}",
                    <<dest_unit, m.cls>>)
        ELSE Measure__init__(m.cls,
                             FDiv(FMul(m.value, m.factor), target_enum.factor),
                             target_enum.display)

\* __add__ without the test of the two unit tables
Measure__add__AnyDimension(a, other) ==
    IF ~IsMeasure(other) THEN NotImplemented
    ELSE LET base_sum == FAdd(to_base_units(a), to_base_units(other))
         IN  Measure__init__(a.cls, FDiv(base_sum, a.factor), a.unit)

\* __add__ rescaling into the right operand's unit
Measure__add__RightUnit(a, other) ==
    IF ~IsMeasure(other) THEN NotImplemented
    ELSE IF unit_enum_name(a.cls) # unit_enum_name(other.cls)
    THEN Raises("TypeError", "Cannot add different physical dimensions", <<>>)
    ELSE LET base_sum == FAdd(to_base_units(a), to_base_units(other))
         IN  Measure__init__(a.cls, FDiv(base_sum, other.factor), other.unit)

\* __add__
Measure__add__(a, other) ==
    IF ~IsMeasure(other) THEN NotImplemented
    ELSE IF unit_enum_name(a.cls) # unit_enum_name(other.cls)
    THEN Raises("TypeError", "Cannot add different physical dimensions", <<>>)
    ELSE LET base_sum == FAdd(to_base_units(a), to_base_units(other))
         IN  Measure__init__(a.cls, FDiv(base_sum, a.factor), a.unit)

\* __sub__
Measure__sub__(a, other) ==
    IF ~IsMeasure(other) THEN NotImplemented
    ELSE IF unit_enum_name(a.cls) # unit_enum_name(other.cls)
    THEN Raises("TypeError", "Cannot subtract different physical dimensions", <<>>)
    ELSE LET base_diff == FSub(to_base_units(a), to_base_units(other))
         IN  Measure__init__(a.cls, FDiv(base_diff, a.factor), a.unit)

\* float(x) of a plain number, None or a str that spells no number
float(x) ==
    IF IsNumber(x) THEN Returns(x.value)
    ELSE IF x.cls = "str"
    THEN Raises("ValueError", "could not convert string to float", <<x.value>>)
    ELSE Raises("TypeError",
                "float() argument must be a string or a real number",
                <<x.cls>>)

\* _cmp_value: the magnitude self is compared with
Measure_cmp_value(a, other) ==
    IF IsMeasure(other)
    THEN IF unit_enum_name(a.cls) # unit_enum_name(other.cls)
         THEN Raises("TypeError", "Cannot compare different physical dimensions", <<>>)
         ELSE Returns(to_base_units(other))
    ELSE float(other)

\* __lt__
Measure__lt__(a, other) ==
    LET c == Measure_cmp_value(a, other)
    IN  IF c.ok THEN Returns(Bool(FCmp(to_base_units(a), c.val) < 0)) ELSE c

\* __le__
Measure__le__(a, other) ==
    LET c == Measure_cmp_value(a, other)
    IN  IF c.ok THEN Returns(Bool(FCmp(to_base_units(a), c.val) <= 0)) ELSE c

\* __gt__
Measure__gt__(a, other) ==
    LET c == Measure_cmp_value(a, other)
    IN  IF c.ok THEN Returns(Bool(FCmp(to_base_units(a), c.val) > 0)) ELSE c

\* __ge__
Measure__ge__(a, other) ==
    LET c == Measure_cmp_value(a, other)
    IN  IF c.ok THEN Returns(Bool(FCmp(to_base_units(a), c.val) >= 0)) ELSE c

\* a < b, a <= b, a > b, a >= b for a Measure a
Compare(sym, a, b) ==
    CASE sym = "<"  -> Measure__lt__(a, b)
      [] sym = "<=" -> Measure__le__(a, b)
      [] sym = ">"  -> Measure__gt__(a, b)
      [] sym = ">=" -> Measure__ge__(a, b)

\* The fields dataclass compares: every field but _unit_enum
CompareFields(m) ==
    <<m.value, m.unit, m.user_unit, m.factor, m.display_unit, dimension(m.cls)>>

\* BaseMeasure.__eq__, which compares base-unit magnitudes.  No Measure class
\* uses it: see Measure__eq__.
BaseMeasure__eq__(a, other) ==
    IF IsMeasure(other)
    THEN IF unit_enum_name(a.cls) # unit_enum_name(other.cls)
         THEN Raises("TypeError", "Cannot compare different physical dimensions", <<>>)
         ELSE Returns(Bool(FCmp(to_base_units(a), to_base_units(other)) = 0))
    ELSE Returns(Bool(FCmp(to_base_units(a), other.value) = 0))

\* The __eq__ of Strain, Stress, SpecificWeight, EnergyDensity and Length:
\* each class is decorated @dataclass(frozen=True), which gives the class an
\* __eq__ of its own (eq defaults to True) that compares the fields of two
\* instances of the same class and declines anything else.  It hides
\* BaseMeasure.__eq__.
Measure__eq__(a, other) ==
    IF other.cls = a.cls
    THEN Returns(Bool(CompareFields(a) = CompareFields(other)))
    ELSE NotImplemented

(***************************************************************************)
(* The operator registries.  A rule table (_rules) is a function from the  *)
(* registered keys, ordered pairs of Dimension Tags, to result classes.    *)
(* There are three of them in the program: the table of                    *)
(* units.registry.MultiplicationRegistry, which BaseMeasure.__mul__        *)
(* resolves in, and the tables of units.registries.MultiplicationRegistry  *)
(* and units.registries.DivisionRegistry, which units/mul_registry.py and  *)
(* units/div_registry.py fill when they are imported.                      *)
(***************************************************************************)
NoRules == [key \in {} |-> "Stress"]

\* cls._rules[key] = result
SetRule(rules, key, result) ==
    [k \in DOMAIN rules \cup {key} |-> IF k = key THEN result ELSE rules[k]]

\* units/registry.py, MultiplicationRegistry.register
registry_register(rules, left, right, result, symmetric) ==
    LET key == <<dimension(left), dimension(right)>>
        one == SetRule(rules, key, result)
    IN  IF symmetric
        THEN SetRule(one, <<dimension(right), dimension(left)>>, result)
        ELSE one

\* resolve giving a Stress for a pair without a rule
registry_resolveDefaultStress(rules, a, b) ==
    LET key == <<dimension(a.cls), dimension(b.cls)>>
        result_cls == IF key \in DOMAIN rules THEN rules[key] ELSE "Stress"
        base_value == FMul(to_base_units(a), to_base_units(b))
    IN  IF "Pa" \notin Members(unit_enum(result_cls))
        THEN Raises("KeyError", "{key}", <<"Pa">>)
        ELSE Measure__init__(result_cls, base_value,
                             MemberNamed(unit_enum(result_cls), "Pa").display)

\* units/registry.py, MultiplicationRegistry.resolve
registry_resolve(rules, a, b) ==
    LET key == <<dimension(a.cls), dimension(b.cls)>>
        result_cls == rules[key]
        base_value == FMul(to_base_units(a), to_base_units(b))
    IN  IF key \notin DOMAIN rules
        THEN Raises("TypeError", "No multiplication rule for {a} x {b}", key)
        ELSE IF "Pa" \notin Members(unit_enum(result_cls))
        THEN Raises("KeyError", "{key}", <<"Pa">>)
        ELSE Measure__init__(result_cls, base_value,
                             MemberNamed(unit_enum(result_cls), "Pa").display)

\* units/registries.py, MultiplicationRegistry.register
registries_register(rules, left, right, result, symmetric) ==
    LET key == <<dimension(left), dimension(right)>>
        one == SetRule(rules, key, result)
    IN  IF symmetric
        THEN SetRule(one, <<dimension(right), dimension(left)>>, result)
        ELSE one

\* units/registries.py, MultiplicationRegistry.resolve
registries_resolve(rules, a, b) ==
    LET key == <<dimension(a.cls), dimension(b.cls)>>
        result_cls == rules[key]
        base_value == FMul(to_base_units(a), to_base_units(b))
        base_unit  == unit_enum(result_cls)[1].display
    IN  IF key \notin DOMAIN rules
        THEN Raises("TypeError", "No multiplication rule for {a} x {b}", key)
        ELSE Measure__init__(result_cls, base_value, base_unit)

\* units/registries.py, DivisionRegistry.register
division_register(rules, numerator, denominator, result) ==
    SetRule(rules, <<dimension(numerator), dimension(denominator)>>, result)

\* units/registries.py, DivisionRegistry.resolve
division_resolve(rules, a, b) ==
    LET key == <<dimension(a.cls), dimension(b.cls)>>
        result_cls == rules[key]
        base_unit  == unit_enum(result_cls)[1].display
    IN  IF key \notin DOMAIN rules
        THEN Raises("TypeError", "No division rule for {a} / {b}", key)
        ELSE IF FIsZero(to_base_units(b))
        THEN Raises("ZeroDivisionError", "float division by zero", <<>>)
        ELSE Measure__init__(result_cls,
                             FDiv(to_base_units(a), to_base_units(b)), base_unit)

\* units/mul_registry.py: what importing the module registers
mul_registry(rules) ==
    registries_register(
        registries_register(rules, "SpecificWeight", "Length", "Stress", TRUE),
        "Length", "Strain", "Length", TRUE)

\* units/div_registry.py: what importing the module registers
div_registry(rules) ==
    division_register(
        division_register(
            division_register(rules, "Stress", "Length", "SpecificWeight"),
            "Stress", "Strain", "Stress"),
        "Length", "Length", "Strain")

(***************************************************************************)
(* BaseMeasure's multiplication and division.  rules is the table of       *)
(* units.registry.MultiplicationRegistry at the time of the call.          *)
(***************************************************************************)
\* __mul__ scaling the magnitude in the base unit
Measure__mul__BaseUnit(rules, a, other) ==
    IF IsNumber(other)
    THEN Measure__init__(a.cls, FMul(to_base_units(a), other.value),
                         unit_enum(a.cls)[1].display)
    ELSE IF IsMeasure(other) THEN registry_resolve(rules, a, other)
    ELSE NotImplemented

\* __mul__
Measure__mul__(rules, a, other) ==
    IF IsNumber(other)
    THEN Measure__init__(a.cls, FMul(a.value, other.value), a.unit)
    ELSE IF IsMeasure(other) THEN registry_resolve(rules, a, other)
    ELSE NotImplemented

\* __truediv__
Measure__truediv__(a, other) ==
    IF IsNumber(other)
    THEN IF FIsZero(other.value)
         THEN Raises("ZeroDivisionError", "float division by zero", <<>>)
         ELSE Measure__init__(a.cls, FDiv(a.value, other.value), a.unit)
    ELSE NotImplemented

(***************************************************************************)
(* The interpreter's binary operators on a Measure a: the method's result, *)
(* and a TypeError when the method declines and the right operand has no   *)
(* reflected method that accepts (a Measure has __rmul__ only, a number's  *)
(* reflected methods decline a Measure).                                   *)
(***************************************************************************)
Add(a, b) ==
    LET r == Measure__add__(a, b)
    IN  IF r = NotImplemented THEN UnsupportedOperand("+", a, b) ELSE r

Sub(a, b) ==
    LET r == Measure__sub__(a, b)
    IN  IF r = NotImplemented THEN UnsupportedOperand("-", a, b) ELSE r

\* A str declines to be repeated a Measure number of times
SequenceRepeat(a, b) ==
    Raises("TypeError", "can't multiply sequence by non-int of type",
           <<IF a.cls = "str" THEN b.cls ELSE a.cls>>)

Mul(rules, a, b) ==
    LET r == Measure__mul__(rules, a, b)
    IN  IF r # NotImplemented THEN r
        ELSE IF b.cls = "str" THEN SequenceRepeat(a, b)
        ELSE UnsupportedOperand("*", a, b)

\* __rmul__
Measure__rmul__(rules, a, other) == Measure__mul__(rules, a, other)

\* b * a for an operand b that is not a Measure, whose own method declines
\* a Measure
RMul(rules, b, a) ==
    LET r == Measure__rmul__(rules, a, b)
    IN  IF r # NotImplemented THEN r
        ELSE IF b.cls = "str" THEN SequenceRepeat(b, a)
        ELSE UnsupportedOperand("*", b, a)

TrueDiv(a, b) ==
    LET r == Measure__truediv__(a, b)
    IN  IF r = NotImplemented THEN UnsupportedOperand("/", a, b) ELSE r

\* a == b for two objects a, b: when both decline, == is identity, which is
\* false of two objects
Eq(a, b) ==
    LET r == Measure__eq__(a, b)
    IN  IF r = NotImplemented THEN Returns(Bool(FALSE)) ELSE r

(***************************************************************************)
(* numpy arrays.  A buffer is a sequence of floats; the program's buffers  *)
(* are numbered in the order they were allocated.  An ndarray is a view    *)
(* of a buffer: the buffer's number and the cells of it the array shows.   *)
(***************************************************************************)
\* The numbers of an ndarray
ArrayValues(bufs, arr) ==
    [k \in 1..Len(arr.idx) |-> bufs[arr.buf][arr.idx[k]]]

\* np.array(values, dtype=float): an array over a new buffer that holds a
\* copy of the values
np_array(bufs, values) ==
    [bufs |-> Append(bufs, values),
     arr  |-> [buf |-> Len(bufs) + 1, idx |-> [k \in 1..Len(values) |-> k]]]

\* arr[start:stop]: a view of the same buffer
np_slice(arr, start, stop) ==
    [buf |-> arr.buf,
     idx |-> SubSeq(arr.idx, start + 1,
                    IF stop < Len(arr.idx) THEN stop ELSE Len(arr.idx))]

(***************************************************************************)
(* units/base_models.py, BaseTensor.  A Tensor class is BaseTensor or a    *)
(* subclass that names its element type; a Tensor is its class, its data   *)
(* (an ndarray) and its unit (a str, or None).  The operations that        *)
(* allocate or write a buffer give the buffers they leave with their       *)
(* outcome.                                                                *)
(***************************************************************************)
\* The unit None of a Tensor
NoneUnit == "None"

\* _element_type() returning None
NoElement == "NoneType"

TensorClasses == {"BaseTensor", "StressTensor", "StrainTensor"}

\* _element_type()
Tensor_element_type(tcls) ==
    CASE tcls = "StressTensor" -> "Stress"
      [] tcls = "StrainTensor" -> "Strain"
      [] OTHER -> NoElement

\* valid_options, as the names and the display strings in turn
ValidOptions(enum_cls) ==
    [k \in 1..(2 * Len(enum_cls)) |->
        IF k % 2 = 1 THEN enum_cls[(k + 1) \div 2].name
        ELSE enum_cls[k \div 2].display]

\* __post_init__ taking the blank unit for every element type
Tensor__post_init__AnyBlank(bufs, tcls, values, unit) ==
    LET made     == np_array(bufs, values)
        elem_cls == Tensor_element_type(tcls)
        enum_cls == unit_enum(elem_cls)
        is_valid == \E i \in 1..Len(enum_cls) :
                       enum_cls[i].name = unit \/ enum_cls[i].display = unit
    IN  IF unit # NoneUnit /\ elem_cls # NoElement /\ ~is_valid /\ unit # ""
        THEN [bufs |-> bufs,
              out  |-> Raises("ValueError",
                              "Unit '{unit}' is invalid for {class} (Element: {element}). Valid options: {options}",
                              <<unit, tcls, elem_cls>> \o ValidOptions(enum_cls))]
        ELSE [bufs |-> made.bufs,
              out  |-> Returns([cls |-> tcls, data |-> made.arr, unit |-> unit])]

\* __post_init__ of tcls(values, unit)
Tensor__post_init__(bufs, tcls, values, unit) ==
    LET made     == np_array(bufs, values)
        elem_cls == Tensor_element_type(tcls)
        enum_cls == unit_enum(elem_cls)
        is_valid == \E i \in 1..Len(enum_cls) :
                       enum_cls[i].name = unit \/ enum_cls[i].display = unit
        blank    == unit = "" /\ \E i \in 1..Len(enum_cls) :
                                    enum_cls[i].display = ""
    IN  IF unit # NoneUnit /\ elem_cls # NoElement /\ ~is_valid /\ ~blank
        THEN [bufs |-> bufs,
              out  |-> Raises("ValueError",
                              "Unit '{unit}' is invalid for {class} (Element: {element}). Valid options: {options}",
                              <<unit, tcls, elem_cls>> \o ValidOptions(enum_cls))]
        ELSE [bufs |-> made.bufs,
              out  |-> Returns([cls |-> tcls, data |-> made.arr, unit |-> unit])]

\* _to_float
Tensor_to_float(x) ==
    IF IsMeasure(x) THEN Returns(to_base_units(x)) ELSE float(x)

\* from_array
Tensor_from_array(bufs, tcls, array, unit) ==
    Tensor__post_init__(bufs, tcls, array, unit)

\* from_list, of a list that is not empty
Tensor_from_list(bufs, tcls, data, unit) ==
    LET first  == data[1]
        unit1  == IF unit = NoneUnit /\ IsMeasure(first)
                  THEN first.display_unit ELSE unit
        floats == [k \in 1..Len(data) |-> Tensor_to_float(data[k])]
        failed == {k \in 1..Len(data) : ~floats[k].ok}
    IN  IF failed # {}
        THEN [bufs |-> bufs,
              out  |-> floats[CHOOSE k \in failed : \A j \in failed : k <= j]]
        ELSE Tensor__post_init__(bufs, tcls,
                                 [k \in 1..Len(data) |-> floats[k].val], unit1)

\* An index and a slice
Index(i) == [kind |-> "int", i |-> i]

Slice(start, stop) == [kind |-> "slice", start |-> start, stop |-> stop]

OutOfBounds(item) ==
    Raises("IndexError", "index {i} is out of bounds", <<>>)

\* __getitem__ giving for a slice a Tensor over numpy's view of the data
Tensor__getitem__View(bufs, t, item) ==
    LET elem_cls == Tensor_element_type(t.cls)
        enum_cls == unit_enum(elem_cls)
        found    == {i \in 1..Len(enum_cls) :
                        enum_cls[i].display = t.unit \/ enum_cls[i].name = t.unit}
        factor   == IF found = {} THEN F1
                    ELSE enum_cls[CHOOSE i \in found : \A j \in found : i <= j].factor
    IN  IF item.kind = "slice"
        THEN [bufs |-> bufs,
              out  |-> Returns([cls |-> t.cls,
                                data |-> np_slice(t.data, item.start, item.stop),
                                unit |-> t.unit])]
        ELSE IF item.i >= Len(t.data.idx)
        THEN [bufs |-> bufs, out |-> OutOfBounds(item)]
        ELSE LET result == ArrayValues(bufs, t.data)[item.i + 1]
             IN  [bufs |-> bufs,
                  out  |-> IF elem_cls # NoElement /\ t.unit \notin {NoneUnit, ""}
                           THEN Measure__init__(elem_cls, FDiv(result, factor),
                                                t.unit)
                           ELSE Returns(Number(result))]

\* __getitem__ for an index, not negative, and for a slice
Tensor__getitem__(bufs, t, item) ==
    LET elem_cls == Tensor_element_type(t.cls)
        enum_cls == unit_enum(elem_cls)
        found    == {i \in 1..Len(enum_cls) :
                        enum_cls[i].display = t.unit \/ enum_cls[i].name = t.unit}
        factor   == IF found = {} THEN F1
                    ELSE enum_cls[CHOOSE i \in found : \A j \in found : i <= j].factor
    IN  IF item.kind = "slice"
        THEN Tensor__post_init__(
                 bufs, t.cls,
                 ArrayValues(bufs, np_slice(t.data, item.start, item.stop)),
                 t.unit)
        ELSE IF item.i >= Len(t.data.idx)
        THEN [bufs |-> bufs, out |-> OutOfBounds(item)]
        ELSE LET result == ArrayValues(bufs, t.data)[item.i + 1]
             IN  [bufs |-> bufs,
                  out  |-> IF elem_cls # NoElement /\ t.unit \notin {NoneUnit, ""}
                           THEN Measure__init__(elem_cls, FDiv(result, factor),
                                                t.unit)
                           ELSE Returns(Number(result))]

\* __setitem__ for an index, not negative
Tensor__setitem__(bufs, t, key, value) ==
    LET val_as_float == Tensor_to_float(value)
    IN  IF ~val_as_float.ok THEN [bufs |-> bufs, out |-> val_as_float]
        ELSE IF key >= Len(t.data.idx)
        THEN [bufs |-> bufs, out |-> OutOfBounds(Index(key))]
        ELSE [bufs |-> [bufs EXCEPT ![t.data.buf][t.data.idx[key + 1]]
                                        = val_as_float.val],
              out  |-> Returns(None)]

\* __len__
Tensor__len__(t) == Len(t.data.idx)

\* t + other, t - other, t * other, t / other: BaseTensor defines none of
\* __add__, __sub__, __mul__, __truediv__ and none of their reflections, and
\* neither a Measure nor a number accepts a Tensor as its operand
Tensor_operator(sym, t, other) == UnsupportedOperand(sym, t, other)

\* convert labelling the new Tensor with dest_unit as it was given
Tensor_convertKeepToken(bufs, t, dest_unit) ==
    LET elem_cls == Tensor_element_type(t.cls)
        enum_cls == unit_enum(elem_cls)
    IN  IF /\ elem_cls # NoElement
           /\ dest_unit \notin Members(enum_cls)
           /\ DisplayMatches(enum_cls, dest_unit) = <<>>
        THEN [bufs |-> bufs,
              out  |-> Raises("ValueError",
                              "Unit '{unit}' is incompatible with {element}",
                              <<dest_unit, elem_cls>>)]
        ELSE Tensor__post_init__(bufs, t.cls, ArrayValues(bufs, t.data),
                                 dest_unit)

\* convert(dest_unit) for a str dest_unit
Tensor_convert(bufs, t, dest_unit) ==
    LET elem_cls == Tensor_element_type(t.cls)
        enum_cls == unit_enum(elem_cls)
        target_display ==
            IF elem_cls = NoElement THEN dest_unit
            ELSE IF dest_unit \in Members(enum_cls)
            THEN MemberNamed(enum_cls, dest_unit).display
            ELSE IF DisplayMatches(enum_cls, dest_unit) # <<>>
            THEN DisplayMatches(enum_cls, dest_unit)[1].display
            ELSE NoneUnit
    IN  IF elem_cls # NoElement /\ target_display = NoneUnit
        THEN [bufs |-> bufs,
              out  |-> Raises("ValueError",
                              "Unit '{unit}' is incompatible with {element}",
                              <<dest_unit, elem_cls>>)]
        ELSE Tensor__post_init__(bufs, t.cls, ArrayValues(bufs, t.data),
                                 target_display)

(***************************************************************************)
(* The state.                                                              *)
(*   registry_rules    units.registry.MultiplicationRegistry._rules        *)
(*   registries_rules  units.registries.MultiplicationRegistry._rules      *)
(*   division_rules    units.registries.DivisionRegistry._rules            *)
(*   modules           the registration modules imported so far            *)
(*   call              the constructor call the client is about to make    *)
(*   lhs, rhs          the client's operands                               *)
(*   expr              the expression the client evaluated last and what   *)
(*                     it gave                                             *)
(*   buffers           the buffers of the ndarrays the Tensors hold        *)
(***************************************************************************)
VARIABLES registry_rules, registries_rules, division_rules, modules,
          call, lhs, rhs, expr, buffers

vars == <<registry_rules, registries_rules, division_rules, modules,
          call, lhs, rhs, expr, buffers>>

rule_vars == <<registry_rules, registries_rules, division_rules, modules>>

NoExpr == [op |-> "none"]

\* How many of ValuePool's values the client's Measures take
NumValues == 5

\* 1, 2, 7, 50, 1000, 0, 3, 100
ValuePool ==
    <<F1, F2, F7, F50, F1000, FZero, F3, F100>>

Values == {ValuePool[i] : i \in 1..NumValues}

\* Every unit token of every table, and one of none
Tokens ==
    UNION {Members(unit_enum(cls)) \cup
           {unit_enum(cls)[i].display : i \in 1..Len(unit_enum(cls))} :
           cls \in MeasureClasses}
    \cup {"furlong"}

ConstructorCalls ==
    [cls : MeasureClasses, value : Values, unit : Tokens]

\* The Measures the constructor calls give
Measures ==
    {Measure__init__(c.cls, c.value, c.unit).val :
        c \in {d \in ConstructorCalls :
                 Measure__init__(d.cls, d.value, d.unit).ok}}

\* The operands that are not Measures: plain numbers, None and a str
NonMeasures ==
    {Number(v) : v \in Values} \cup {None, Str("a")}

\* How many of OperandPool's Measures the registries' client multiplies and
\* divides
NumOperands == 7

OperandPool ==
    << Measure__init__("SpecificWeight", F20, "kN/m^3").val,
       Measure__init__("Length", F2, "m").val,
       Measure__init__("Stress", F1, "kPa").val,
       Measure__init__("Strain", F0_01, "").val,
       Measure__init__("EnergyDensity", F1, "Pa").val,
       Measure__init__("SpecificWeight", F1, "g/cm^3").val,
       Measure__init__("Length", F50, "cm").val,
       Measure__init__("Stress", F100, "kPa").val >>

Operands == {OperandPool[i] : i \in 1..NumOperands}

\* How many of RulePool's rules the client registers
NumRules == 3

RulePool ==
    << <<"SpecificWeight", "Length", "Stress">>,
       <<"Length", "Strain", "Length">>,
       <<"Stress", "Strain", "EnergyDensity">>,
       <<"Strain", "Strain", "Strain">> >>

RuleInputs == {RulePool[i] : i \in 1..NumRules}

(***************************************************************************)
(* The registries and their client: registration, by importing the         *)
(* registration modules or by calling register, and products and           *)
(* quotients of the client's two Measures, in any order.  The program is   *)
(* sequential: the client has the outcome of an expression (expr) before   *)
(* it does anything else, and goes on when it has dropped it.              *)
(***************************************************************************)
Init ==
    /\ registry_rules = NoRules
    /\ registries_rules = NoRules
    /\ division_rules = NoRules
    /\ modules = {}
    /\ call = None
    /\ lhs \in Operands
    /\ rhs \in Operands
    /\ expr = NoExpr
    /\ buffers = <<>>

\* import units.mul_registry
ImportMulRegistry ==
    /\ expr = NoExpr
    /\ "units.mul_registry" \notin modules
    /\ modules' = modules \cup {"units.mul_registry"}
    /\ registries_rules' = mul_registry(registries_rules)
    /\ UNCHANGED <<registry_rules, division_rules, call, lhs, rhs, expr, buffers>>

\* import units.div_registry
ImportDivRegistry ==
    /\ expr = NoExpr
    /\ "units.div_registry" \notin modules
    /\ modules' = modules \cup {"units.div_registry"}
    /\ division_rules' = div_registry(division_rules)
    /\ UNCHANGED <<registry_rules, registries_rules, call, lhs, rhs, expr, buffers>>

\* units.registry.MultiplicationRegistry.register(left, right, result, symmetric)
Register ==
    \E rule \in RuleInputs, symmetric \in BOOLEAN :
        /\ expr = NoExpr
        /\ registry_rules' =
              registry_register(registry_rules, rule[1], rule[2], rule[3], symmetric)
        /\ UNCHANGED <<registries_rules, division_rules, modules,
                       call, lhs, rhs, expr, buffers>>

\* lhs * rhs
Multiply ==
    /\ expr = NoExpr
    /\ expr' = [op |-> "mul", out |-> Mul(registry_rules, lhs, rhs)]
    /\ UNCHANGED <<rule_vars, call, lhs, rhs, buffers>>

\* lhs / rhs
Divide ==
    /\ expr = NoExpr
    /\ expr' = [op |-> "truediv", out |-> TrueDiv(lhs, rhs)]
    /\ UNCHANGED <<rule_vars, call, lhs, rhs, buffers>>

\* units.registries.MultiplicationRegistry.resolve(lhs, rhs)
ResolveProduct ==
    /\ expr = NoExpr
    /\ expr' = [op |-> "registries_resolve",
                out |-> registries_resolve(registries_rules, lhs, rhs)]
    /\ UNCHANGED <<rule_vars, call, lhs, rhs, buffers>>

\* units.registries.DivisionRegistry.resolve(lhs, rhs)
ResolveQuotient ==
    /\ expr = NoExpr
    /\ expr' = [op |-> "division_resolve",
                out |-> division_resolve(division_rules, lhs, rhs)]
    /\ UNCHANGED <<rule_vars, call, lhs, rhs, buffers>>

\* The client drops the outcome and goes on
Continue ==
    /\ expr # NoExpr
    /\ call = None
    /\ expr' = NoExpr
    /\ UNCHANGED <<rule_vars, call, lhs, rhs, buffers>>

Next ==
    \/ ImportMulRegistry
    \/ ImportDivRegistry
    \/ Register
    \/ Multiply
    \/ Divide
    \/ ResolveProduct
    \/ ResolveQuotient
    \/ Continue

Spec == Init /\ [][Next]_vars

(***************************************************************************)
(* Measures by themselves: the client constructs a Measure and converts    *)
(* it, there and back, or has two Measures and adds, subtracts or          *)
(* compares them.  Each run evaluates one expression.                      *)
(***************************************************************************)
InitMeasure ==
    /\ registry_rules = NoRules
    /\ registries_rules = NoRules
    /\ division_rules = NoRules
    /\ modules = {}
    /\ expr = NoExpr
    /\ buffers = <<>>
    /\ \/ call \in ConstructorCalls /\ lhs = None /\ rhs = None
       \/ call = None /\ lhs \in Measures /\ rhs \in Measures
       \/ call = None /\ lhs \in Measures /\ rhs \in NonMeasures

\* cls(value, unit)
Construct ==
    /\ call # None
    /\ expr = NoExpr
    /\ LET out == Measure__init__(call.cls, call.value, call.unit)
       IN  /\ expr' = [op |-> "construct", out |-> out]
           /\ lhs' = IF out.ok THEN out.val ELSE None
    /\ UNCHANGED <<rule_vars, call, rhs, buffers>>

\* lhs.convert(dest_unit)
Convert ==
    /\ expr.op = "construct"
    /\ lhs # None
    /\ \E dest_unit \in Tokens :
          expr' = [op |-> "convert", dest_unit |-> dest_unit,
                   out |-> convert(lhs, dest_unit)]
    /\ UNCHANGED <<rule_vars, call, lhs, rhs, buffers>>

\* lhs.convert(dest_unit).convert(lhs.unit)
ConvertBack ==
    /\ expr.op = "convert"
    /\ expr.out.ok
    /\ expr' = [op |-> "convert_back", dest_unit |-> expr.dest_unit,
                out |-> convert(expr.out.val, lhs.unit)]
    /\ UNCHANGED <<rule_vars, call, lhs, rhs, buffers>>

\* lhs + rhs
Plus ==
    /\ call = None
    /\ expr = NoExpr
    /\ expr' = [op |-> "add", out |-> Add(lhs, rhs)]
    /\ UNCHANGED <<rule_vars, call, lhs, rhs, buffers>>

\* lhs - rhs
Minus ==
    /\ call = None
    /\ expr = NoExpr
    /\ expr' = [op |-> "sub", out |-> Sub(lhs, rhs)]
    /\ UNCHANGED <<rule_vars, call, lhs, rhs, buffers>>

\* lhs == rhs
Equals ==
    /\ call = None
    /\ expr = NoExpr
    /\ expr' = [op |-> "eq", out |-> Eq(lhs, rhs)]
    /\ UNCHANGED <<rule_vars, call, lhs, rhs, buffers>>

\* lhs * rhs
Times ==
    /\ call = None
    /\ expr = NoExpr
    /\ expr' = [op |-> "mul", out |-> Mul(registry_rules, lhs, rhs)]
    /\ UNCHANGED <<rule_vars, call, lhs, rhs, buffers>>

\* rhs * lhs for an rhs that is not a Measure
RTimes ==
    /\ call = None
    /\ expr = NoExpr
    /\ ~IsMeasure(rhs)
    /\ expr' = [op |-> "rmul", out |-> RMul(registry_rules, rhs, lhs)]
    /\ UNCHANGED <<rule_vars, call, lhs, rhs, buffers>>

\* lhs / rhs
Over ==
    /\ call = None
    /\ expr = NoExpr
    /\ expr' = [op |-> "truediv", out |-> TrueDiv(lhs, rhs)]
    /\ UNCHANGED <<rule_vars, call, lhs, rhs, buffers>>

\* lhs < rhs, lhs <= rhs, lhs > rhs, lhs >= rhs
Compares ==
    /\ call = None
    /\ expr = NoExpr
    /\ \E sym \in {"<", "<=", ">", ">="} :
          expr' = [op |-> "cmp", sym |-> sym, out |-> Compare(sym, lhs, rhs)]
    /\ UNCHANGED <<rule_vars, call, lhs, rhs, buffers>>

NextMeasure ==
    \/ Construct
    \/ Convert
    \/ ConvertBack
    \/ Plus
    \/ Minus
    \/ Equals
    \/ Times
    \/ RTimes
    \/ Over
    \/ Compares

SpecMeasure == InitMeasure /\ [][NextMeasure]_vars

(***************************************************************************)
(* A client of the Tensors: it builds one Tensor (lhs), takes a slice or a *)
(* conversion of it (rhs), and then reads an element of either, puts an    *)
(* operator between them, or assigns to elements of either.                *)
(***************************************************************************)
\* How many of TensorDataPool's lists the client passes to from_list
NumTensorData == 6

TensorDataPool ==
    << << Measure__init__("Stress", F100, "kPa").val,
          Measure__init__("Stress", F200, "kPa").val >>,
       << Measure__init__("Strain", F0_01, "").val,
          Measure__init__("Strain", F0_001, "").val >>,
       << Number(F100), Number(F200) >>,
       << Measure__init__("Stress", F7, "MPa").val,
          Measure__init__("Stress", F3, "kg_cm2").val >>,
       << Measure__init__("Stress", F100, "kPa").val,
          Measure__init__("Length", F7, "cm").val >>,
       << Measure__init__("Stress", F1, "Pa").val, None >>,
       << Measure__init__("Length", F2, "m").val >> >>

TensorData == {TensorDataPool[i] : i \in 1..NumTensorData}

\* The arrays of raw numbers the client passes to the constructor and to
\* from_array
RawData == {<<F100, F200>>, <<F0_01, F0_001>>, <<F7>>}

\* The units the client names: none, names and display strings of the
\* tables, and one of no table
TensorUnits ==
    {NoneUnit, "kPa", "MPa", "kg_cm2", "", "furlong"}

TensorCalls ==
    [tcls : TensorClasses, how : {"from_list"}, data : TensorData,
     unit : TensorUnits]
    \cup [tcls : TensorClasses, how : {"init", "from_array"}, data : RawData,
          unit : TensorUnits]

\* How many indexed assignments the client makes
MaxWrites == 2

\* The values the client assigns
WrittenValues == {Number(F7), Measure__init__("Stress", F1, "MPa").val}

InitTensor ==
    /\ registry_rules = NoRules
    /\ registries_rules = NoRules
    /\ division_rules = NoRules
    /\ modules = {}
    /\ expr = NoExpr
    /\ buffers = <<>>
    /\ call \in TensorCalls
    /\ lhs = None
    /\ rhs = None

\* tcls(data, unit), tcls.from_array(data, unit), tcls.from_list(data, unit)
TensorCall ==
    /\ expr = NoExpr
    /\ LET made == CASE call.how = "init" ->
                         Tensor__post_init__(buffers, call.tcls, call.data, call.unit)
                     [] call.how = "from_array" ->
                         Tensor_from_array(buffers, call.tcls, call.data, call.unit)
                     [] call.how = "from_list" ->
                         Tensor_from_list(buffers, call.tcls, call.data, call.unit)
       IN  /\ buffers' = made.bufs
           /\ lhs' = IF made.out.ok THEN made.out.val ELSE None
           /\ expr' = [op |-> "tensor", out |-> made.out]
    /\ UNCHANGED <<rule_vars, call, rhs>>

\* The Tensors the client holds
Held == {t \in {lhs, rhs} : t # None}

\* The client has a Tensor and has not yet read an element or used an
\* operator
Building ==
    /\ lhs # None
    /\ expr.op \in {"tensor", "slice", "tconvert", "setitem"}

\* rhs = lhs[start:stop]
TakeSlice ==
    /\ expr.op = "tensor"
    /\ lhs # None
    /\ \E item \in {Slice(0, 1), Slice(1, 2), Slice(0, 2)} :
          LET made == Tensor__getitem__(buffers, lhs, item)
          IN  /\ buffers' = made.bufs
              /\ rhs' = IF made.out.ok THEN made.out.val ELSE None
              /\ expr' = [op |-> "slice", item |-> item, out |-> made.out]
    /\ UNCHANGED <<rule_vars, call, lhs>>

\* rhs = lhs.convert(dest_unit)
TensorConvert ==
    /\ expr.op = "tensor"
    /\ lhs # None
    /\ \E dest_unit \in TensorUnits \ {NoneUnit} :
          LET made == Tensor_convert(buffers, lhs, dest_unit)
          IN  /\ buffers' = made.bufs
              /\ rhs' = IF made.out.ok THEN made.out.val ELSE None
              /\ expr' = [op |-> "tconvert", dest_unit |-> dest_unit,
                          out |-> made.out]
    /\ UNCHANGED <<rule_vars, call, lhs>>

\* How many indexed assignments the client has made
Writes == IF expr.op = "setitem" THEN expr.n ELSE 0

\* t[key] = value
SetItem ==
    /\ Building
    /\ Writes < MaxWrites
    /\ \E t \in Held, key \in 0..1, value \in WrittenValues :
          LET made == Tensor__setitem__(buffers, t, key, value)
          IN  /\ buffers' = made.bufs
              /\ expr' = [op |-> "setitem", self |-> t, key |-> key,
                          value |-> value, n |-> Writes + 1,
                          after |-> IF expr.op = "setitem" THEN expr.after
                                    ELSE expr.op,
                          out |-> made.out]
    /\ UNCHANGED <<rule_vars, call, lhs, rhs>>

\* t[i]
GetItem ==
    /\ Building
    /\ expr.op # "setitem"
    /\ \E t \in Held, i \in 0..1 :
          LET made == Tensor__getitem__(buffers, t, Index(i))
          IN  /\ buffers' = made.bufs
              /\ expr' = [op |-> "getitem", self |-> t, i |-> i,
                          n |-> Writes, after |-> expr.op, out |-> made.out]
    /\ UNCHANGED <<rule_vars, call, lhs, rhs>>

\* t + other, t - other, t * other, t / other
TensorOperator ==
    /\ Building
    /\ expr.op # "setitem"
    /\ \E t \in Held, other \in Held \cup WrittenValues,
          sym \in {"+", "-", "*", "/"} :
          expr' = [op |-> "operator", sym |-> sym, self |-> t,
                   other |-> other, out |-> Tensor_operator(sym, t, other)]
    /\ UNCHANGED <<rule_vars, call, lhs, rhs, buffers>>

NextTensor ==
    \/ TensorCall
    \/ TakeSlice
    \/ TensorConvert
    \/ SetItem
    \/ GetItem
    \/ TensorOperator

SpecTensor == InitTensor /\ [][NextTensor]_vars

(***************************************************************************)
(* The error kinds of the specification, as the failures the code raises   *)
(***************************************************************************)
\* UnknownUnit: the ValueError of BaseMeasure.__post_init__
IsUnknownUnit(out) ==
    /\ ~out.ok
    /\ out.exc = "ValueError"
    /\ out.msg = "Unknown unit: {unit} in {enum}"

\* DimensionMismatch: the TypeErrors of __add__, __sub__ and _cmp_value
IsDimensionMismatch(out) ==
    /\ ~out.ok
    /\ out.exc = "TypeError"
    /\ out.msg \in {"Cannot add different physical dimensions",
                    "Cannot subtract different physical dimensions",
                    "Cannot compare different physical dimensions"}

\* NoRegisteredRule: the TypeErrors of the registries' resolve, which name
\* the two dimensions
IsNoRegisteredRule(out) ==
    /\ ~out.ok
    /\ out.exc = "TypeError"
    /\ out.msg \in {"No multiplication rule for {a} x {b}",
                    "No division rule for {a} / {b}"}

\* The Dimension Tags of the client's two operands, in order
OperandKey ==
    <<dimension(lhs.cls), dimension(rhs.cls)>>

(***************************************************************************)
(* C1.  After the start-up registration of the multiplication rules        *)
(* (importing units/mul_registry.py), a SpecificWeight times a Length is a *)
(* Stress whose base-unit magnitude is the product of the operands'        *)
(* base-unit magnitudes.                                                   *)
(***************************************************************************)
C1_StartupRuleGivesStress ==
    ( /\ expr.op = "mul"
      /\ "units.mul_registry" \in modules
      /\ lhs.cls = "SpecificWeight"
      /\ rhs.cls = "Length" )
    => /\ expr.out.ok
       /\ expr.out.val.cls = "Stress"
       /\ to_base_units(expr.out.val)
              = FMul(to_base_units(lhs), to_base_units(rhs))

(***************************************************************************)
(* C2.  Two Measures of the same quantity type are equal exactly when      *)
(* their base-unit magnitudes are equal.                                   *)
(***************************************************************************)
C2_EqualityByBaseMagnitude ==
    (expr.op = "eq" /\ lhs.cls = rhs.cls)
    => /\ expr.out.ok
       /\ expr.out.val.value
              = (FCmp(to_base_units(lhs), to_base_units(rhs)) = 0)

(***************************************************************************)
(* C3.  After the start-up registration of the division rules (importing   *)
(* units/div_registry.py), a Stress divided by a Length of nonzero         *)
(* magnitude is a SpecificWeight whose base-unit magnitude is the quotient *)
(* of the operands' base-unit magnitudes.                                  *)
(***************************************************************************)
C3_StartupRuleGivesSpecificWeight ==
    ( /\ expr.op = "truediv"
      /\ "units.div_registry" \in modules
      /\ lhs.cls = "Stress"
      /\ rhs.cls = "Length"
      /\ ~FIsZero(to_base_units(rhs)) )
    => /\ expr.out.ok
       /\ expr.out.val.cls = "SpecificWeight"
       /\ to_base_units(expr.out.val)
              = FDiv(to_base_units(lhs), to_base_units(rhs))

(***************************************************************************)
(* C4.  The sum and the difference of two Measures of different quantity   *)
(* types fail with DimensionMismatch, whatever the values and the units:   *)
(* no Measure is returned.                                                 *)
(***************************************************************************)
C4_MixedTypesDimensionMismatch ==
    (expr.op \in {"add", "sub"} /\ IsMeasure(rhs) /\ lhs.cls # rhs.cls)
    => IsDimensionMismatch(expr.out)

\* Stress(1, "kPa") + Length(1, "m") has failed
C4_Witness ==
    /\ expr.op = "add"
    /\ lhs.cls = "Stress" /\ lhs.value = F1 /\ lhs.unit = "kPa"
    /\ rhs.cls = "Length" /\ rhs.value = F1 /\ rhs.unit = "m"
    /\ ~expr.out.ok

(***************************************************************************)
(* C5.  The sum (difference) of two Measures a, b of the same quantity     *)
(* type is a Measure of that type in a's unit.  Its value is the sum       *)
(* (difference) of the base-unit magnitudes divided by a's factor, in      *)
(* floating point: its base-unit magnitude is the sum (difference) of the  *)
(* operands' base-unit magnitudes exactly when a's unit is the base unit,  *)
(* and within a relative error of 2^-51 otherwise.                        *)
(***************************************************************************)
C5_BaseSum ==
    IF expr.op = "add"
    THEN FAdd(to_base_units(lhs), to_base_units(rhs))
    ELSE FSub(to_base_units(lhs), to_base_units(rhs))

C5_SumInLeftUnit ==
    (expr.op \in {"add", "sub"} /\ lhs.cls = rhs.cls)
    => /\ expr.out.ok
       /\ expr.out.val.cls = lhs.cls
       /\ expr.out.val.unit = lhs.unit
       /\ expr.out.val.user_unit = lhs.user_unit
       /\ FClose(to_base_units(expr.out.val), C5_BaseSum, 51)
       /\ lhs.factor = F1 => to_base_units(expr.out.val) = C5_BaseSum

\* Length(2, "m") + Length(50, "cm") is 2.5 m
C5_Witness ==
    /\ expr.op = "add"
    /\ lhs.cls = "Length" /\ lhs.value = F2 /\ lhs.unit = "m"
    /\ rhs.cls = "Length" /\ rhs.value = F50 /\ rhs.unit = "cm"
    /\ expr.out.ok
    /\ expr.out.val.unit = "m"
    /\ expr.out.val.value = FLit(5, 2)

\* C5 as the specification has it: the base-unit magnitude of the result is
\* the sum (difference) of the operands' base-unit magnitudes.
C5_ExactBaseMagnitude ==
    (expr.op \in {"add", "sub"} /\ lhs.cls = rhs.cls)
    => /\ expr.out.ok
       /\ expr.out.val.cls = lhs.cls
       /\ expr.out.val.unit = lhs.unit
       /\ to_base_units(expr.out.val) = C5_BaseSum

(***************************************************************************)
(* C6.  Whatever has been registered so far, the product of two Measures   *)
(* whose ordered pair of Dimension Tags has no entry in the multiplication *)
(* rule table fails with NoRegisteredRule: no value is returned, no other  *)
(* error is raised, and evaluating a product leaves the rule tables as     *)
(* they were.                                                              *)
(***************************************************************************)
C6_UnregisteredProductFails ==
    /\ []( (expr.op = "mul" /\ OperandKey \notin DOMAIN registry_rules)
           => IsNoRegisteredRule(expr.out) )
    /\ [][ (expr.op = "none" /\ expr'.op = "mul")
           => /\ OperandKey \notin DOMAIN registry_rules
                    => IsNoRegisteredRule(expr'.out)
              /\ UNCHANGED rule_vars ]_vars

\* Stress(1, "kPa") * Stress(1, "kPa") has failed after rules were registered
C6_Witness ==
    /\ expr.op = "mul"
    /\ lhs.cls = "Stress" /\ rhs.cls = "Stress"
    /\ registry_rules # NoRules
    /\ OperandKey \notin DOMAIN registry_rules
    /\ IsNoRegisteredRule(expr.out)

(***************************************************************************)
(* C7.  When a rule is in the multiplication rule table under both orders  *)
(* of its pair, as a symmetric registration leaves it, the products a * b  *)
(* and b * a both succeed, with the rule's result type and the same        *)
(* base-unit magnitude.                                                    *)
(***************************************************************************)
C7_SymmetricRuleBothOrders ==
    LET key == OperandKey
        rev == <<OperandKey[2], OperandKey[1]>>
    IN  ( /\ expr.op = "mul"
          /\ key \in DOMAIN registry_rules
          /\ rev \in DOMAIN registry_rules
          /\ registry_rules[key] = registry_rules[rev] )
        => LET other == Mul(registry_rules, rhs, lhs)
           IN  /\ expr.out.ok
               /\ other.ok
               /\ expr.out.val.cls = registry_rules[key]
               /\ other.val.cls = registry_rules[key]
               /\ to_base_units(expr.out.val) = to_base_units(other.val)

(***************************************************************************)
(* C8.  The quotient of two Measures whose ordered pair of Dimension Tags  *)
(* has no entry in the division rule table fails with NoRegisteredRule,    *)
(* the error of a product without a rule.                                  *)
(***************************************************************************)
C8_UnregisteredQuotientFails ==
    (expr.op = "truediv" /\ OperandKey \notin DOMAIN division_rules)
    => IsNoRegisteredRule(expr.out)

(***************************************************************************)
(* C9.  Constructing a Measure with a unit token that is neither a name    *)
(* nor a display string of the unit table of its class fails with          *)
(* UnknownUnit: no Measure is created, and the error names the token and   *)
(* the unit table of the class.                                            *)
(***************************************************************************)
\* The names and the display strings of the unit table of cls
ValidTokens(cls) ==
    {unit_enum(cls)[i].name : i \in 1..Len(unit_enum(cls))}
    \cup {unit_enum(cls)[i].display : i \in 1..Len(unit_enum(cls))}

ArgsOf(out) == {out.args[i] : i \in 1..Len(out.args)}

C9_UnknownTokenRejected ==
    (expr.op = "construct" /\ call.unit \notin ValidTokens(call.cls))
    => /\ IsUnknownUnit(expr.out)
       /\ lhs = None
       /\ expr.out.args = <<call.unit, unit_enum_name(call.cls)>>

\* Length(1, "furlong") has failed
C9_Witness ==
    /\ expr.op = "construct"
    /\ call.cls = "Length" /\ call.value = F1 /\ call.unit = "furlong"
    /\ IsUnknownUnit(expr.out)
    /\ lhs = None

\* C9 as the specification has it: the error names the quantity type and
\* the valid tokens of the type.
C9_ErrorNamesTypeAndTokens ==
    (expr.op = "construct" /\ call.unit \notin ValidTokens(call.cls))
    => /\ IsUnknownUnit(expr.out)
       /\ lhs = None
       /\ call.cls \in ArgsOf(expr.out)
       /\ ValidTokens(call.cls) \subseteq ArgsOf(expr.out)

(***************************************************************************)
(* C10.  convert(target) of a Measure gives a Measure of the same class in *)
(* the target unit, with value = value * factor / target.factor in         *)
(* floating point.  Its base-unit magnitude is the original's within a     *)
(* relative error of 2^-51; converting to the Measure's own unit gives the *)
(* value back within 2^-51, and convert(B).convert(A) gives it back within *)
(* 2^-50; all three are exact when the factors involved are 1.             *)
(***************************************************************************)
C10_ConvertUpToRounding ==
    /\ (expr.op = "convert" /\ expr.dest_unit \in ValidTokens(lhs.cls))
       => /\ expr.out.ok
          /\ expr.out.val.cls = lhs.cls
          /\ expr.dest_unit \in {expr.out.val.user_unit,
                                 expr.out.val.display_unit}
          /\ expr.out.val.unit = expr.out.val.display_unit
          /\ expr.out.val.value
                 = FDiv(FMul(lhs.value, lhs.factor), expr.out.val.factor)
          /\ FClose(to_base_units(expr.out.val), to_base_units(lhs), 51)
          /\ expr.out.val.user_unit = lhs.user_unit
                 => FClose(expr.out.val.value, lhs.value, 51)
          /\ (lhs.factor = F1 /\ expr.out.val.factor = F1)
                 => /\ expr.out.val.value = lhs.value
                    /\ to_base_units(expr.out.val) = to_base_units(lhs)
    /\ expr.op = "convert_back"
       => /\ expr.out.ok
          /\ expr.out.val.cls = lhs.cls
          /\ expr.out.val.user_unit = lhs.user_unit
          /\ FClose(expr.out.val.value, lhs.value, 50)
          /\ ( /\ lhs.factor = F1
               /\ convert(lhs, expr.dest_unit).val.factor = F1 )
                 => expr.out.val.value = lhs.value

\* Length(7, "cm").convert("cm") is a Length in cm whose value is not 7
C10_Witness ==
    /\ expr.op = "convert"
    /\ lhs.cls = "Length" /\ lhs.value = F7 /\ lhs.unit = "cm"
    /\ expr.dest_unit = "cm"
    /\ expr.out.ok
    /\ expr.out.val.unit = "cm"
    /\ expr.out.val.value # F7

\* C10 as the specification has it: the base-unit magnitude, the value
\* converted to the Measure's own unit and the value converted there and
\* back are the original's.
C10_ConvertExact ==
    /\ (expr.op = "convert" /\ expr.dest_unit \in ValidTokens(lhs.cls))
       => /\ expr.out.ok
          /\ expr.out.val.cls = lhs.cls
          /\ to_base_units(expr.out.val) = to_base_units(lhs)
          /\ expr.out.val.user_unit = lhs.user_unit
                 => expr.out.val.value = lhs.value
    /\ expr.op = "convert_back"
       => /\ expr.out.ok
          /\ expr.out.val.value = lhs.value

(***************************************************************************)
(* C11.  In every unit table a valid token finds one variant only: the     *)
(* variant found by name and the variants found by display string are the  *)
(* same single variant, the Measure constructed has that variant's factor, *)
(* and constructing by the variant's name and by its display string gives  *)
(* the same factor.                                                        *)
(***************************************************************************)
C11_LookupUnambiguous ==
    (expr.op = "construct" /\ call.unit \in ValidTokens(call.cls))
    => LET tbl == unit_enum(call.cls)
           byName == {i \in 1..Len(tbl) : tbl[i].name = call.unit}
           byDisplay == {i \in 1..Len(tbl) : tbl[i].display = call.unit}
       IN  /\ Cardinality(byName \cup byDisplay) = 1
           /\ expr.out.ok
           /\ \A i \in byName \cup byDisplay :
                 /\ expr.out.val.user_unit = tbl[i].name
                 /\ expr.out.val.display_unit = tbl[i].display
                 /\ expr.out.val.factor = tbl[i].factor
           /\ Measure__init__(call.cls, call.value,
                              expr.out.val.user_unit).val.factor
                  = Measure__init__(call.cls, call.value,
                                    expr.out.val.display_unit).val.factor

\* EnergyDensity(1, "Pa"), a token that is a name and a display string, has
\* been constructed
C11_Witness ==
    /\ expr.op = "construct"
    /\ call.cls = "EnergyDensity" /\ call.unit = "Pa" /\ call.value = F1
    /\ expr.out.ok
    /\ expr.out.val.user_unit = "Pa"
    /\ expr.out.val.display_unit = "Pa"

(***************************************************************************)
(* C12.  The product of a Measure and a plain number, in either order, and *)
(* the quotient of a Measure by a nonzero plain number are Measures of the *)
(* same class in the same unit whose value is the value times, or divided  *)
(* by, the number.  A right operand that is neither a plain number nor,    *)
(* for the product, a Measure fails with InvalidOperand.                   *)
(***************************************************************************)
\* InvalidOperand: the interpreter's TypeError for an operand the operator's
\* methods decline
IsInvalidOperand(out) ==
    /\ ~out.ok
    /\ out.exc = "TypeError"
    /\ out.msg \in {"unsupported operand type(s) for +",
                    "unsupported operand type(s) for -",
                    "unsupported operand type(s) for *",
                    "unsupported operand type(s) for /",
                    "can't multiply sequence by non-int of type"}

C12_ScaledBy(value) ==
    /\ expr.out.ok
    /\ expr.out.val.cls = lhs.cls
    /\ expr.out.val.unit = lhs.unit
    /\ expr.out.val.user_unit = lhs.user_unit
    /\ expr.out.val.factor = lhs.factor
    /\ expr.out.val.value = value

C13_Holds(sym, x, y) ==
    CASE sym = "<"  -> FCmp(x, y) < 0
      [] sym = "<=" -> FCmp(x, y) <= 0
      [] sym = ">"  -> FCmp(x, y) > 0
      [] sym = ">=" -> FCmp(x, y) >= 0
      [] sym = "==" -> FCmp(x, y) = 0

C13_ComparisonsByBaseMagnitude ==
    LET sym == IF expr.op = "eq" THEN "==" ELSE expr.sym
    IN  /\ (expr.op \in {"cmp", "eq"} /\ IsMeasure(rhs) /\ lhs.cls # rhs.cls)
           => IsDimensionMismatch(expr.out)
        /\ (expr.op \in {"cmp", "eq"} /\ IsMeasure(rhs) /\ lhs.cls = rhs.cls)
           => /\ expr.out.ok
              /\ expr.out.val.value
                     = C13_Holds(sym, to_base_units(lhs), to_base_units(rhs))
        /\ (expr.op \in {"cmp", "eq"} /\ IsNumber(rhs))
           => /\ expr.out.ok
              /\ expr.out.val.value
                     = C13_Holds(sym, to_base_units(lhs), rhs.value)

(***************************************************************************)
(* C19.  When a rule for the operands' pair of Dimension Tags is in the    *)
(* table, resolving a product or a quotient succeeds whatever the result   *)
(* type is, and gives a Measure of the registered result type in that      *)
(* type's base unit (factor 1) whose value is the product or the quotient  *)
(* of the operands' base-unit magnitudes.                                  *)
(***************************************************************************)
C19_ResolvedTo(result_cls, value) ==
    /\ expr.out.ok
    /\ expr.out.val.cls = result_cls
    /\ expr.out.val.factor = F1
    /\ expr.out.val.value = value

C19_Product == FMul(to_base_units(lhs), to_base_units(rhs))

C19_RegisteredRuleResolves ==
    /\ (expr.op = "mul" /\ OperandKey \in DOMAIN registry_rules)
       => C19_ResolvedTo(registry_rules[OperandKey], C19_Product)
    /\ (expr.op = "registries_resolve"
            /\ OperandKey \in DOMAIN registries_rules)
       => C19_ResolvedTo(registries_rules[OperandKey], C19_Product)
    /\ (expr.op = "division_resolve"
            /\ OperandKey \in DOMAIN division_rules
            /\ ~FIsZero(to_base_units(rhs)))
       => C19_ResolvedTo(division_rules[OperandKey],
                         FDiv(to_base_units(lhs), to_base_units(rhs)))

(***************************************************************************)
(* C20.  In every unit table the factors are positive and the first        *)
(* variant has factor 1.  Dimensionless, StressUnit, SpecificWeightUnit    *)
(* and LengthUnit have no other variant of factor 1; EnergyDensityUnit has *)
(* two, J_m3 and Pa.                                                       *)
(***************************************************************************)
\* The names of the variants of factor 1 in the unit table of cls
BaseUnits(cls) ==
    {unit_enum(cls)[i].name :
        i \in {j \in 1..Len(unit_enum(cls)) : unit_enum(cls)[j].factor = F1}}

C20_PositiveFactors ==
    \A cls \in MeasureClasses :
        \A i \in 1..Len(unit_enum(cls)) :
            FCmp(unit_enum(cls)[i].factor, FZero) > 0

C20_BaseUnits ==
    /\ C20_PositiveFactors
    /\ \A cls \in MeasureClasses :
          /\ unit_enum(cls)[1].factor = F1
          /\ cls # "EnergyDensity" => Cardinality(BaseUnits(cls)) = 1
    /\ BaseUnits("EnergyDensity") = {"J_m3", "Pa"}
    /\ (expr.op = "construct" /\ expr.out.ok)
       => FCmp(expr.out.val.factor, FZero) > 0

\* EnergyDensity(1, "J_m3") has been constructed with factor 1, which Pa has
\* too
C20_Witness ==
    /\ expr.op = "construct"
    /\ call.cls = "EnergyDensity" /\ call.unit = "J_m3"
    /\ expr.out.ok
    /\ expr.out.val.factor = F1
    /\ BaseUnits(call.cls) = {"J_m3", "Pa"}

\* C20 as the specification has it: one variant of factor 1 in every table
C20_ExactlyOneBaseUnit ==
    (expr.op = "construct" /\ expr.out.ok)
    => /\ Cardinality(BaseUnits(call.cls)) = 1
       /\ \A i \in 1..Len(unit_enum(call.cls)) :
             FCmp(unit_enum(call.cls)[i].factor, FZero) > 0

\* InvalidUnitForTensor: the ValueError of BaseTensor.__post_init__
IsInvalidUnitForTensor(out) ==
    /\ ~out.ok
    /\ out.exc = "ValueError"
    /\ out.msg = "Unit '{unit}' is invalid for {class} (Element: {element}). Valid options: {options}"

\* The magnitude in the base unit of the k-th element the constructor call
\* names: of a Measure its own, of a raw number that of the number in the
\* call's unit
C14_Magnitude(k) ==
    LET x == call.data[k]
        elem_cls == Tensor_element_type(call.tcls)
    IN  IF call.how = "from_list"
        THEN IF IsMeasure(x) THEN to_base_units(x)
             ELSE to_base_units(Measure__init__(elem_cls, x.value, call.unit).val)
        ELSE to_base_units(Measure__init__(elem_cls, x, call.unit).val)

\* C14: after a construction that names a unit, each number a Tensor with
\* an element type stores is the magnitude of its element in the base unit
C14_StoresBaseMagnitudes ==
    (/\ expr.op = "tensor"
     /\ expr.out.ok
     /\ Tensor_element_type(call.tcls) # NoElement
     /\ call.unit # NoneUnit)
    => \A k \in 1..Len(call.data) :
          ArrayValues(buffers, lhs.data)[k] = C14_Magnitude(k)

\* The constructor call was from_list, with no unit, of Measures of the
\* element type of the Tensor class
C15_FromMeasures ==
    /\ call.how = "from_list"
    /\ call.unit = NoneUnit
    /\ \A k \in 1..Len(call.data) :
          call.data[k].cls = Tensor_element_type(call.tcls)

\* The client read an element that exists, before any assignment
C15_Read ==
    /\ expr.op = "getitem"
    /\ expr.n = 0
    /\ expr.i < Len(expr.self.data.idx)

\* C15: of a Tensor built by from_list from Measures of its element type,
\* element i is a Measure of that type with the base-unit magnitude of the
\* i-th Measure, and element i of a conversion of it to unit u is a Measure
\* of that type in u whose value is that magnitude divided by u's factor
C15_ElementsAreTheMeasures ==
    (C15_FromMeasures /\ C15_Read)
    => LET m_i == call.data[expr.i + 1]
       IN  /\ expr.self = lhs
              => /\ expr.out.ok
                 /\ expr.out.val.cls = m_i.cls
                 /\ to_base_units(expr.out.val) = to_base_units(m_i)
           /\ (expr.self = rhs /\ expr.after = "tconvert")
              => /\ expr.out.ok
                 /\ expr.out.val.cls = m_i.cls
                 /\ expr.out.val.display_unit = rhs.unit
                 /\ expr.out.val.value
                       = FDiv(to_base_units(m_i), expr.out.val.factor)

\* The variants of the Tensor's element type that a unit token names, by
\* name or by display string
C16_Targets(t, token) ==
    LET enum_cls == unit_enum(Tensor_element_type(t.cls))
    IN  {i \in 1..Len(enum_cls) :
            enum_cls[i].name = token \/ enum_cls[i].display = token}

\* C16: convert of a Tensor with an element type gives a new Tensor with
\* the same numbers and the display string of the target variant as its
\* unit, and leaves the original's data and unit as they were; with a unit
\* of no variant it fails and gives no Tensor
C16_ConvertKeepsData ==
    [][(expr'.op = "tconvert" /\ Tensor_element_type(lhs.cls) # NoElement)
       => LET targets == C16_Targets(lhs, expr'.dest_unit)
          IN  /\ lhs' = lhs
              /\ ArrayValues(buffers', lhs.data) = ArrayValues(buffers, lhs.data)
              /\ targets # {}
                 => /\ expr'.out.ok
                    /\ rhs' = expr'.out.val
                    /\ rhs'.cls = lhs.cls
                    /\ rhs'.data.buf # lhs.data.buf
                    /\ ArrayValues(buffers', rhs'.data)
                          = ArrayValues(buffers, lhs.data)
                    /\ \A i \in targets :
                          rhs'.unit
                            = unit_enum(Tensor_element_type(lhs.cls))[i].display
              /\ targets = {}
                 => /\ ~expr'.out.ok
                    /\ expr'.out.exc = "ValueError"
                    /\ rhs' = None
                    /\ buffers' = buffers]_vars

\* a Stress Tensor in kPa was converted to kg_cm2
C16_Witness ==
    /\ expr.op = "tconvert"
    /\ expr.out.ok
    /\ lhs.cls = "StressTensor"
    /\ lhs.unit = "kPa"
    /\ expr.dest_unit = "kg_cm2"
    /\ rhs.unit = "kg/cm^2"

\* The other operand is a Tensor
C17_IsTensor(v) == v.cls \in TensorClasses

\* C17: an elementwise +, -, *, / between two Tensors of the same shape and
\* element kind gives a Tensor of that shape; between Tensors of different
\* shapes it fails, and not as an unsupported operand; between Tensors of
\* different element kinds, or a Tensor and a Measure of another kind, it
\* fails as an unsupported operand
C17_ElementwiseOperators ==
    expr.op = "operator"
    => LET t == expr.self
           other == expr.other
       IN  IF C17_IsTensor(other)
           THEN IF Tensor__len__(t) # Tensor__len__(other)
                THEN ~expr.out.ok /\ ~IsInvalidOperand(expr.out)
                ELSE IF t.cls # other.cls
                THEN IsInvalidOperand(expr.out)
                ELSE /\ expr.out.ok
                     /\ C17_IsTensor(expr.out.val)
                     /\ Tensor__len__(expr.out.val) = Tensor__len__(t)
           ELSE (IsMeasure(other) /\ other.cls # Tensor_element_type(t.cls))
                => IsInvalidOperand(expr.out)

\* The constructor call names a unit for a Tensor class with an element
\* type, and its data are numbers or Measures
C18_TypedCallWithUnit ==
    /\ Tensor_element_type(call.tcls) # NoElement
    /\ call.unit # NoneUnit
    /\ call.how = "from_list"
       => \A k \in 1..Len(call.data) : Tensor_to_float(call.data[k]).ok

\* The call's unit is the name or the display string of a variant of the
\* element type's unit table
C18_UnitOfTheTable ==
    LET enum_cls == unit_enum(Tensor_element_type(call.tcls))
    IN  \E i \in 1..Len(enum_cls) :
           enum_cls[i].name = call.unit \/ enum_cls[i].display = call.unit

\* C18: constructing a Tensor with an element type and a unit gives a
\* Tensor when the unit is the name or the display string of a variant of
\* the element type's table (the blank unit only when a variant's display
\* string is blank), and otherwise fails with InvalidUnitForTensor and
\* leaves no Tensor
C18_UnitValidated ==
    (expr.op = "tensor" /\ C18_TypedCallWithUnit)
    => IF C18_UnitOfTheTable
       THEN /\ expr.out.ok
            /\ lhs = expr.out.val
            /\ lhs.cls = call.tcls
            /\ lhs.unit = call.unit
       ELSE /\ IsInvalidUnitForTensor(expr.out)
            /\ lhs = None
            /\ buffers = <<>>

\* a Stress Tensor was asked for with the blank unit, and refused
C18_Witness ==
    /\ expr.op = "tensor"
    /\ call.tcls = "StressTensor"
    /\ call.unit = ""
    /\ IsInvalidUnitForTensor(expr.out)
    /\ lhs = None

\* C21: a slice of a Tensor is a new Tensor of the same class and unit over
\* a buffer of its own that holds the numbers of the range; taking it
\* leaves the original as it was, every later assignment to the slice
\* leaves the original's numbers as they were, and every later assignment
\* to the original leaves the slice's
C21_SliceSharesNothing ==
    [][/\ (expr'.op = "slice" /\ expr'.out.ok)
          => /\ rhs' = expr'.out.val
             /\ rhs'.cls = lhs.cls
             /\ rhs'.unit = lhs.unit
             /\ rhs'.data.buf # lhs.data.buf
             /\ ArrayValues(buffers', rhs'.data)
                   = ArrayValues(buffers,
                                 np_slice(lhs.data, expr'.item.start,
                                          expr'.item.stop))
             /\ lhs' = lhs
             /\ ArrayValues(buffers', lhs.data) = ArrayValues(buffers, lhs.data)
       /\ (expr'.op = "setitem" /\ expr'.after = "slice" /\ rhs # None)
          => /\ lhs' = lhs
             /\ rhs' = rhs
             /\ expr'.self = rhs
                => ArrayValues(buffers', lhs.data) = ArrayValues(buffers, lhs.data)
             /\ expr'.self = lhs
                => ArrayValues(buffers', rhs.data) = ArrayValues(buffers, rhs.data)
             /\ expr'.out.ok
                => ArrayValues(buffers', expr'.self.data)[expr'.key + 1]
                      = Tensor_to_float(expr'.value).val]_vars

\* the second of two assignments was to a slice and put 7 in it, and the
\* original holds no 7
C21_Witness ==
    /\ expr.op = "setitem"
    /\ expr.after = "slice"
    /\ expr.n = 2
    /\ expr.out.ok
    /\ expr.self = rhs
    /\ ArrayValues(buffers, rhs.data)[expr.key + 1] = F7
    /\ \A k \in 1..Tensor__len__(lhs) : ArrayValues(buffers, lhs.data)[k] # F7

\* C22: reading an element that exists of a Tensor with an element type and
\* a unit gives a Measure of the element type, the blank unit of a Strain
\* Tensor included
C22_ElementIsMeasure ==
    (/\ expr.op = "getitem"
     /\ Tensor_element_type(expr.self.cls) # NoElement
     /\ expr.self.unit # NoneUnit
     /\ expr.i < Tensor__len__(expr.self))
    => /\ expr.out.ok
       /\ expr.out.val.cls = Tensor_element_type(expr.self.cls)

\* What an ordering comparison of two Measures of one class answers
C23_Answer(sym, a, b) == Compare(sym, a, b).val.value

\* C23: for two Measures of one quantity type, a == b holds exactly when
\* a <= b and a >= b both hold, and fails exactly when a < b or a > b holds
C23_EqualityAgreesWithOrdering ==
    (expr.op = "eq" /\ lhs.cls = rhs.cls)
    => /\ expr.out.ok
       /\ \A sym \in {"<", "<=", ">", ">="} : Compare(sym, lhs, rhs).ok
       /\ expr.out.val.value
             <=> (C23_Answer("<=", lhs, rhs) /\ C23_Answer(">=", lhs, rhs))
       /\ (~expr.out.val.value)
             <=> (C23_Answer("<", lhs, rhs) \/ C23_Answer(">", lhs, rhs))

====
